---------------------------- MODULE Spec2Model ----------------------------
(***************************************************************************)
(* Model of pleskfm.py: a command-line client for the plesk file manager.  *)
(*                                                                         *)
(* Strings on which the code does character work (paths, class attribute   *)
(* values, text nodes) are sequences of one-character strings.  Strings    *)
(* the code only passes around (messages, token values, tag names) are     *)
(* TLA+ strings.  Python's None is the value None.                         *)
(*                                                                         *)
(* html.parser.HTMLParser is a library: markup is the sequence of events   *)
(* it delivers to the handler methods (start tag, start-end tag, end tag,  *)
(* data), attribute values as the library delivers them.                   *)
(***************************************************************************)
EXTENDS Integers, Sequences, FiniteSets, TLC

VARIABLES
    \* ---- markup scanner (TokenFilter / ErrorFilter instances) ----
    parser,     \* which parser object is being fed: "none", "token", "error"
    fed,        \* the events fed to the parser so far
    tftoken,    \* TokenFilter.token
    stack,      \* ErrorFilter.stack
    level,      \* ErrorFilter.level
    errormsg,   \* ErrorFilter.errormsg
    pstate,     \* "feeding", "closed" (value returned), "raised" (exception)
    ret,        \* the value ExtractToken / ExtractError returned
    \* ---- one invocation of main() ----
    run,        \* number of the invocation (1-based)
    pc,         \* position of main / of the task's coroutine
    cmd,        \* the parsed command line (args)
    token,      \* WebHosting.token
    sent,       \* the requests this session has sent, in order
    inflight,   \* the requests awaiting their response (at most one)
    info,       \* the responses received so far, the last one last
    result,     \* outcome of the invocation
    out,        \* bytes written to the download destination
    body,       \* download: the part of the response stream not yet read
    landing,    \* the landing page start() received (its events)
    \* ---- the server and what is kept between invocations ----
    cwd,        \* the server's current directory for the session
    files,      \* the server's file store: set of <<dir, name, content>>
    prev,       \* what the previous invocation did (command, path, data)
    \* ---- resources and the coroutine's call stack ----
    unclosed,   \* number of responses acquired and not closed
    frames      \* listfiles: per active call, the entries still to visit

scanvars == <<parser, fed, tftoken, stack, level, errormsg, pstate, ret>>
mainvars == <<run, pc, cmd, token, sent, inflight, info, result, out, body,
              landing, cwd, files, prev, unclosed, frames>>
vars == <<parser, fed, tftoken, stack, level, errormsg, pstate, ret,
          run, pc, cmd, token, sent, inflight, info, result, out, body,
          landing, cwd, files, prev, unclosed, frames>>

None == "None"

-----------------------------------------------------------------------------
(* Bounds *)

\* events fed to an ErrorFilter in the scanner specification
MaxEvents == 5
\* events fed to a TokenFilter in the scanner specification
MaxTokenEvents == 3
\* bytes of a file's content
MaxContent == 2
\* entries of a response's statusMessages list
MaxMsgs == 2
\* levels of a listed directory tree that have sub-directories
MaxDepth == 2

-----------------------------------------------------------------------------
(* Strings *)

Min(a, b) == IF a < b THEN a ELSE b

\* str.find(sub): lowest 0-based index where sub occurs, -1 when it does not
Find(s, sub) ==
    LET hits == { i \in 0..(Len(s) - Len(sub)) :
                    SubSeq(s, i + 1, i + Len(sub)) = sub }
    IN  IF hits = {} THEN -1
        ELSE CHOOSE i \in hits : \A j \in hits : i <= j

\* str.rfind(sub): highest 0-based index where sub occurs, -1 when none
RFind(s, sub) ==
    LET hits == { i \in 0..(Len(s) - Len(sub)) :
                    SubSeq(s, i + 1, i + Len(sub)) = sub }
    IN  IF hits = {} THEN -1
        ELSE CHOOSE i \in hits : \A j \in hits : i >= j

Whitespace == {" ", "\n", "\t"}

\* str.strip(): leading and trailing whitespace removed
Strip(s) ==
    LET keep == { i \in 1..Len(s) : s[i] \notin Whitespace }
    IN  IF keep = {} THEN <<>>
        ELSE SubSeq(s, CHOOSE i \in keep : \A j \in keep : i <= j,
                       CHOOSE i \in keep : \A j \in keep : i >= j)

\* str.rstrip('/')
RStripSlash(s) ==
    LET keep == { i \in 1..Len(s) : s[i] # "/" }
    IN  IF keep = {} THEN <<>>
        ELSE SubSeq(s, 1, CHOOSE i \in keep : \A j \in keep : i >= j)

RECURSIVE StrRemove(_, _)
\* str.replace(sub, ''): every occurrence of sub removed, left to right
StrRemove(s, sub) ==
    LET i == Find(s, sub)
    IN  IF i < 0 \/ sub = <<>> THEN s
        ELSE SubSeq(s, 1, i)
                 \o StrRemove(SubSeq(s, i + Len(sub) + 1, Len(s)), sub)

\* dict(attrs).get(key, default): attrs is the list of (name, value) pairs,
\* a later pair of the same name overrides an earlier one
HasKey(attrs, key) == \E i \in 1..Len(attrs) : attrs[i][1] = key

DictGet(attrs, key, default) ==
    IF HasKey(attrs, key)
    THEN attrs[CHOOSE i \in 1..Len(attrs) :
                 /\ attrs[i][1] = key
                 /\ \A j \in 1..Len(attrs) : attrs[j][1] = key => j <= i][2]
    ELSE default

-----------------------------------------------------------------------------
(* Markup events *)

StartTag(tag, attrs)    == [type |-> "start", tag |-> tag, attrs |-> attrs]
StartEndTag(tag, attrs) == [type |-> "startend", tag |-> tag, attrs |-> attrs]
EndTag(tag)             == [type |-> "end", tag |-> tag]
Data(d)                 == [type |-> "data", data |-> d]

FPT == "forgery_protection_token"

MsgError == <<"m", "s", "g", "-", "e", "r", "r", "o", "r">>


-----------------------------------------------------------------------------
(* TokenFilter *)

\* TokenFilter.checkmeta on a parser whose token is tok.  d['content'] raises
\* KeyError when the tag has no content attribute.
TF_checkmeta(tok, attrs) ==
    IF DictGet(attrs, "name", None) = FPT
    THEN IF HasKey(attrs, "content")
         THEN [token |-> DictGet(attrs, "content", None), raised |-> FALSE]
         ELSE [token |-> tok, raised |-> TRUE]
    ELSE [token |-> tok, raised |-> FALSE]

\* TokenFilter.handle_starttag
TF_starttag(tok, tag, attrs) ==
    IF tag = "meta" THEN TF_checkmeta(tok, attrs)
    ELSE [token |-> tok, raised |-> FALSE]

\* TokenFilter.handle_startendtag
TF_startendtag(tok, tag, attrs) ==
    IF tag = "meta" THEN TF_checkmeta(tok, attrs)
    ELSE [token |-> tok, raised |-> FALSE]

\* one event delivered to a TokenFilter; end tags and data reach the base
\* class's handlers, which do nothing
TF_event(tok, ev) ==
    CASE ev.type = "start"    -> TF_starttag(tok, ev.tag, ev.attrs)
      [] ev.type = "startend" -> TF_startendtag(tok, ev.tag, ev.attrs)
      [] OTHER                -> [token |-> tok, raised |-> FALSE]

RECURSIVE TF_feed(_, _)
\* parser.feed(html) from token tok: the events in order, stopping at the
\* first handler that raises
TF_feed(tok, evs) ==
    IF evs = <<>> THEN [token |-> tok, raised |-> FALSE]
    ELSE LET r == TF_event(tok, Head(evs))
         IN  IF r.raised THEN r ELSE TF_feed(r.token, Tail(evs))

\* ExtractToken(html): [token, raised]; token is None when no tag matched
ExtractToken(html) == TF_feed(None, html)

-----------------------------------------------------------------------------
(* ErrorFilter *)

\* an ErrorFilter object's fields; raised: a handler raised an exception
EF(st, lv, msg, r) == [stack |-> st, level |-> lv, errormsg |-> msg, raised |-> r]

VoidTags == {"meta", "input", "br", "link", "img", "hr"}

\* the value the library gives an attribute written without a value (None),
\* where a character string is expected
NoneStr == <<None>>

\* ErrorFilter.handle_startendtag: pass
EF_startendtag(e, tag, attrs) == e

\* ErrorFilter.handle_starttag.  cls.find raises AttributeError when the class
\* attribute has no value (cls is None).
EF_starttag(e, tag, attrs) ==
    IF tag \in VoidTags THEN EF_startendtag(e, tag, attrs)
    ELSE LET st  == Append(e.stack, tag)
             cls == DictGet(attrs, "class", <<>>)
         IN  IF tag # "div" THEN EF(st, e.level, e.errormsg, FALSE)
             ELSE IF cls = NoneStr THEN EF(st, e.level, e.errormsg, TRUE)
             ELSE IF Find(cls, MsgError) > 0
                  THEN EF(st, Len(st), e.errormsg, FALSE)
                  ELSE EF(st, e.level, e.errormsg, FALSE)

\* a handle_endtag that unwinds to the outermost open element of that name
\* instead of the innermost (the loop not reversed)
EF_endtag_outermost(e, tag) ==
    LET n    == Len(e.stack)
        lvl  == IF e.level = n THEN 0 ELSE e.level
        open == { i \in 1..n : e.stack[i] = tag }
    IN  IF n > 0 /\ e.stack[n] = tag
        THEN EF(SubSeq(e.stack, 1, n - 1), lvl, e.errormsg, FALSE)
        ELSE IF open # {}
        THEN LET i == CHOOSE i \in open : \A j \in open : i <= j
             IN  EF(SubSeq(e.stack, 1, i - 1), lvl, e.errormsg, FALSE)
        ELSE EF(e.stack, lvl, e.errormsg, FALSE)

\* ErrorFilter.handle_endtag
EF_endtag(e, tag) ==
    LET n    == Len(e.stack)
        lvl  == IF e.level = n THEN 0 ELSE e.level
        open == { i \in 1..n : e.stack[i] = tag }
    IN  IF n > 0 /\ e.stack[n] = tag
        THEN EF(SubSeq(e.stack, 1, n - 1), lvl, e.errormsg, FALSE)
        ELSE IF open # {}
        THEN LET i == CHOOSE i \in open : \A j \in open : j <= i
             IN  EF(SubSeq(e.stack, 1, i - 1), lvl, e.errormsg, FALSE)
        ELSE EF(e.stack, lvl, e.errormsg, FALSE)

\* ErrorFilter.handle_data
EF_data(e, data) ==
    IF e.level # 0
    THEN EF(e.stack, e.level,
            (IF e.errormsg # <<>> THEN e.errormsg \o <<" ">> ELSE e.errormsg)
                \o data,
            FALSE)
    ELSE e

EF_event(e, ev) ==
    CASE ev.type = "start"    -> EF_starttag(e, ev.tag, ev.attrs)
      [] ev.type = "startend" -> EF_startendtag(e, ev.tag, ev.attrs)
      [] ev.type = "end"      -> EF_endtag(e, ev.tag)
      [] OTHER                -> EF_data(e, ev.data)

RECURSIVE EF_feed(_, _)
\* parser.feed(html): the events in order, stopping at a handler that raises
EF_feed(e, evs) ==
    IF evs = <<>> \/ e.raised THEN e
    ELSE EF_feed(EF_event(e, Head(evs)), Tail(evs))

\* ErrorFilter.__init__
EF_init == EF(<<>>, 0, <<>>, FALSE)

\* ExtractError(html): [text, raised]
ExtractError(html) ==
    LET e == EF_feed(EF_init, html)
    IN  [text |-> Strip(e.errormsg), raised |-> e.raised]

-----------------------------------------------------------------------------
(* The markup scanner on its own: one parser object fed event by event *)

Attr(n, v) == <<n, v>>

\* attribute lists of the tags fed to a TokenFilter
TokAttrs ==
    { <<>>,
      <<Attr("name", FPT), Attr("content", "t1")>>,
      <<Attr("name", FPT), Attr("content", "t2")>>,
      <<Attr("name", FPT), Attr("content", "")>>,
      <<Attr("name", FPT)>>,
      <<Attr("name", "viewport"), Attr("content", "t1")>> }

TokStartEvents ==
    { StartTag("meta", a) : a \in TokAttrs }
        \cup { StartTag("div", <<Attr("name", FPT), Attr("content", "t1")>>) }

TokStartEndEvents == { StartEndTag("meta", a) : a \in TokAttrs }

TokOtherEvents == { EndTag("div"), Data(<<"x">>) }

\* class attribute values of the divs fed to an ErrorFilter
ClsBox      == <<"b">>
ClsMsgError == MsgError
ClsBoxError == <<"b", " ">> \o MsgError

ErrStartEvents ==
    { StartTag("div", <<Attr("class", c)>>) :
          c \in {ClsBox, ClsMsgError, ClsBoxError, NoneStr} }
        \cup { StartTag("p", <<>>), StartTag("br", <<>>) }

ErrStartEndEvents == { StartEndTag("div", <<Attr("class", ClsBoxError)>>) }

ErrEndTags == {"div", "p"}

ErrData == { <<"a">>, <<" ", "c">> }

\* the state of no scanner object (the session specifications)
ScanIdle ==
    /\ parser = "none"
    /\ fed = <<>>
    /\ tftoken = None
    /\ stack = <<>>
    /\ level = 0
    /\ errormsg = <<>>
    /\ pstate = "none"
    /\ ret = None

\* TokenFilter.__init__ / ErrorFilter.__init__
InitScanner ==
    /\ parser \in {"token", "error"}
    /\ fed = <<>>
    /\ tftoken = None
    /\ stack = <<>>
    /\ level = 0
    /\ errormsg = <<>>
    /\ pstate = "feeding"
    /\ ret = None

Feeding(which, bound) ==
    /\ parser = which
    /\ pstate = "feeding"
    /\ Len(fed) < bound

TokenFilter_handle_starttag ==
    /\ Feeding("token", MaxTokenEvents)
    /\ \E ev \in TokStartEvents :
         LET r == TF_starttag(tftoken, ev.tag, ev.attrs)
         IN  /\ tftoken' = r.token
             /\ pstate' = IF r.raised THEN "raised" ELSE "feeding"
             /\ fed' = Append(fed, ev)
    /\ UNCHANGED <<parser, stack, level, errormsg, ret>>
    /\ UNCHANGED mainvars

TokenFilter_handle_startendtag ==
    /\ Feeding("token", MaxTokenEvents)
    /\ \E ev \in TokStartEndEvents :
         LET r == TF_startendtag(tftoken, ev.tag, ev.attrs)
         IN  /\ tftoken' = r.token
             /\ pstate' = IF r.raised THEN "raised" ELSE "feeding"
             /\ fed' = Append(fed, ev)
    /\ UNCHANGED <<parser, stack, level, errormsg, ret>>
    /\ UNCHANGED mainvars

\* end tags and data: HTMLParser's own handlers, which do nothing
TokenFilter_handle_other ==
    /\ Feeding("token", MaxTokenEvents)
    /\ \E ev \in TokOtherEvents : fed' = Append(fed, ev)
    /\ UNCHANGED <<parser, tftoken, stack, level, errormsg, pstate, ret>>
    /\ UNCHANGED mainvars

\* ExtractToken: parser.close(); return parser.token
ExtractToken_return ==
    /\ parser = "token"
    /\ pstate = "feeding"
    /\ pstate' = "closed"
    /\ ret' = tftoken
    /\ UNCHANGED <<parser, fed, tftoken, stack, level, errormsg>>
    /\ UNCHANGED mainvars

EF_self == EF(stack, level, errormsg, FALSE)

EF_assign(e) ==
    /\ stack' = e.stack
    /\ level' = e.level
    /\ errormsg' = e.errormsg
    /\ pstate' = IF e.raised THEN "raised" ELSE "feeding"

ErrorFilter_handle_starttag ==
    /\ Feeding("error", MaxEvents)
    /\ \E ev \in ErrStartEvents :
         /\ EF_assign(EF_starttag(EF_self, ev.tag, ev.attrs))
         /\ fed' = Append(fed, ev)
    /\ UNCHANGED <<parser, tftoken, ret>>
    /\ UNCHANGED mainvars

ErrorFilter_handle_startendtag ==
    /\ Feeding("error", MaxEvents)
    /\ \E ev \in ErrStartEndEvents :
         /\ EF_assign(EF_startendtag(EF_self, ev.tag, ev.attrs))
         /\ fed' = Append(fed, ev)
    /\ UNCHANGED <<parser, tftoken, ret>>
    /\ UNCHANGED mainvars

ErrorFilter_handle_endtag ==
    /\ Feeding("error", MaxEvents)
    /\ \E tag \in ErrEndTags :
         /\ EF_assign(EF_endtag(EF_self, tag))
         /\ fed' = Append(fed, EndTag(tag))
    /\ UNCHANGED <<parser, tftoken, ret>>
    /\ UNCHANGED mainvars

ErrorFilter_handle_data ==
    /\ Feeding("error", MaxEvents)
    /\ \E d \in ErrData :
         /\ EF_assign(EF_data(EF_self, d))
         /\ fed' = Append(fed, Data(d))
    /\ UNCHANGED <<parser, tftoken, ret>>
    /\ UNCHANGED mainvars

\* ExtractError: parser.close(); return parser.errormsg.strip()
ExtractError_return ==
    /\ parser = "error"
    /\ pstate = "feeding"
    /\ pstate' = "closed"
    /\ ret' = Strip(errormsg)
    /\ UNCHANGED <<parser, fed, tftoken, stack, level, errormsg>>
    /\ UNCHANGED mainvars

NoCmd ==
    [command |-> "none", username |-> FALSE, dirname |-> <<>>, arg |-> <<>>,
     destination |-> <<>>, files |-> <<>>, data |-> <<>>,
     recurse |-> FALSE, ignoreerror |-> FALSE]

NoResult == [kind |-> "none", message |-> None]

NoPrev == [stored |-> FALSE, path |-> <<>>, data |-> <<>>]

\* no session: the scanner specification leaves the session's state alone
MainIdle ==
    /\ run = 0
    /\ pc = "idle"
    /\ cmd = NoCmd
    /\ token = None
    /\ sent = <<>>
    /\ inflight = <<>>
    /\ info = <<>>
    /\ result = NoResult
    /\ out = <<>>
    /\ body = <<>>
    /\ landing = <<>>
    /\ cwd = <<"/">>
    /\ files = {}
    /\ prev = NoPrev
    /\ unclosed = 0
    /\ frames = <<>>

InitScan == InitScanner /\ MainIdle

NextScan ==
    \/ TokenFilter_handle_starttag
    \/ TokenFilter_handle_startendtag
    \/ TokenFilter_handle_other
    \/ ExtractToken_return
    \/ ErrorFilter_handle_starttag
    \/ ErrorFilter_handle_startendtag
    \/ ErrorFilter_handle_endtag
    \/ ErrorFilter_handle_data
    \/ ExtractError_return

SpecScan == InitScan /\ [][NextScan]_vars


-----------------------------------------------------------------------------
(* Paths *)

Root == <<"/">>
DirF == <<"/", "f">>
DirG == <<"/", "g">>

\* os.path.split(p): (head, tail), tail the part after the last slash; the
\* head's trailing slashes are stripped unless it consists of slashes only
PathSplit(p) ==
    LET i    == RFind(p, <<"/">>) + 1
        head == SubSeq(p, 1, i)
        tail == SubSeq(p, i + 1, Len(p))
    IN  << IF head # <<>> /\ (\E k \in 1..Len(head) : head[k] # "/")
           THEN RStripSlash(head) ELSE head,
           tail >>

\* os.path.join(a, b)
PathJoin(a, b) ==
    IF b # <<>> /\ b[1] = "/" THEN b
    ELSE IF a = <<>> \/ a[Len(a)] = "/" THEN a \o b
    ELSE a \o <<"/">> \o b

-----------------------------------------------------------------------------
(* WebHosting: the requests its methods build *)

Req(kind, params, form) == [kind |-> kind, params |-> params, form |-> form]

\* a makeform that does not put the session's token into the form
makeform_notoken(tok, args, kwargs) ==
    [forgery_protection_token |-> None,
     ids |-> [i \in 0..(Len(args) - 1) |-> args[i + 1]],
     named |-> kwargs]

\* a makeform that numbers the file arguments from the last one
makeform_reversed(tok, args, kwargs) ==
    [forgery_protection_token |-> tok,
     ids |-> [i \in 0..(Len(args) - 1) |-> args[Len(args) - i]],
     named |-> kwargs]

\* WebHosting.makeform(*args, **kwargs) with self.token = tok: ids[i] is the
\* field 'ids[%d]' % i that enumerate(args) gives the i-th argument, counted
\* from 0; named the keyword arguments
makeform(tok, args, kwargs) ==
    [forgery_protection_token |-> tok,
     ids |-> [i \in 0..(Len(args) - 1) |-> args[i + 1]],
     named |-> kwargs]

WH_login ==
    Req("login_up.php3", <<>>,
        [login_name |-> "user", passwd |-> "pw", locale_id |-> "default"])

WH_gettoken == Req("smb/", <<>>, <<>>)

WH_listdir(dirname) == Req("list-data", [currentDir |-> dirname], <<>>)

WH_download(dirname, filename) ==
    Req("download", [currentDir |-> dirname, file |-> filename], <<>>)

WH_delfiles(tok, filelist) == Req("delete", <<>>, makeform(tok, filelist, <<>>))

\* WebHosting.calcsize raises before building the form when a name has a '/'
WH_calcsize_raises(filelist) ==
    \E i \in 1..Len(filelist) : Find(filelist[i], <<"/">>) >= 0

WH_calcsize(tok, filelist) ==
    Req("calculate-size", <<>>, makeform(tok, filelist, <<>>))

WH_makezip(tok, zipname, filelist) ==
    Req("create-archive", <<>>,
        makeform(tok, filelist, [archiveName |-> zipname]))

WH_unzip(tok, zipname) ==
    Req("extract-archive", [overwrite |-> "true"],
        makeform(tok, <<zipname>>, <<>>))

WH_mkdir(tok, dirname) ==
    Req("create-directory", <<>>,
        makeform(tok, <<>>, [newDirectoryName |-> dirname]))

WH_createemptyfile(tok, filename) ==
    Req("create-file", <<>>,
        makeform(tok, <<>>, [newFileName |-> filename, htmlTemplate |-> FALSE]))

WH_copy(tok, filelist, destination) ==
    Req("copy-files", [destinationDir |-> destination, overwrite |-> "false"],
        makeform(tok, filelist, <<>>))

WH_move(tok, filelist, destination) ==
    Req("move-files", [destinationDir |-> destination, overwrite |-> "false"],
        makeform(tok, filelist, <<>>))

\* WebHosting.upload(fh, filename): the token form plus one file field, named
\* filename, streamed from fh (whose content is data)
WH_upload(tok, data, filename) ==
    Req("upload", <<>>,
        [form |-> makeform(tok, <<>>, <<>>), field |-> filename,
         filename |-> filename, content |-> data])

\* the requests that are not part of start(): the file operations
StartKinds == {"login_up.php3", "smb/"}

\* the requests that carry a form built by makeform
FormKinds == {"delete", "calculate-size", "create-archive", "extract-archive",
              "create-directory", "create-file", "copy-files", "move-files"}

-----------------------------------------------------------------------------
(* The command line: main()'s args and the task main() queues *)

NameA == <<"a">>
NameB == <<"b">>
NameSub == <<"d", "/", "a">>

Bytes == {0, 1}

RECURSIVE SeqsUpTo(_, _)
SeqsUpTo(S, n) ==
    IF n = 0 THEN {<<>>}
    ELSE LET shorter == SeqsUpTo(S, n - 1)
         IN  shorter \cup { Append(q, x) : q \in shorter, x \in S }

Contents == SeqsUpTo(Bytes, MaxContent)

\* remote paths given to tee / cat / get
TransferPaths ==
    { NameA, <<"/", "a">>, <<"/", "f", "/", "a">>,
      <<"/", "f", "/", "/", "a">> }

Args(command, username, dirname, arg, destination, filelist, data) ==
    [command |-> command, username |-> username, dirname |-> dirname,
     arg |-> arg, destination |-> destination, files |-> filelist,
     data |-> data, recurse |-> FALSE, ignoreerror |-> FALSE]

\* -C given or not (None)
DirOptions == {NoneStr, Root, DirF}

UploadCommands ==
    { Args("tee", u, <<>>, p, <<>>, <<>>, d) :
          u \in BOOLEAN, p \in TransferPaths, d \in Contents }
    \cup { Args("put", u, <<>>, NameA, dst, <<>>, d) :
          u \in BOOLEAN, dst \in {Root, DirF}, d \in Contents }

DownloadCommands ==
    { Args(c, u, <<>>, p, <<>>, <<>>, <<>>) :
          c \in {"cat", "get"}, u \in BOOLEAN, p \in TransferPaths }

DotZip == <<".", "z", "i", "p">>

ZipNames ==
    { <<"z">> \o DotZip, <<"d", "/", "z">> \o DotZip,
      <<"a">> \o DotZip \o <<"b">> \o DotZip }

BatchLists == { <<NameA>>, <<NameA, NameB>>, <<NameB, NameA>> }

OtherCommands ==
    { Args(c, u, d, <<>>, <<>>, f, <<>>) :
          c \in {"cp", "mv"}, u \in BOOLEAN, d \in DirOptions,
          f \in { <<DirG>>, <<NameA, DirG>>, <<NameA, NameB, DirG>> } }
    \cup { Args("du", u, d, <<>>, <<>>, f, <<>>) :
          u \in BOOLEAN, d \in DirOptions,
          f \in BatchLists \cup { <<>>, <<NameA, NameSub>> } }
    \cup { Args("zip", u, d, z, <<>>, f, <<>>) :
          u \in BOOLEAN, d \in DirOptions, z \in ZipNames, f \in BatchLists }
    \cup { Args("unzip", u, <<>>, z, <<>>, <<>>, <<>>) :
          u \in BOOLEAN, z \in { <<"z">> \o DotZip, DirF \o <<"/", "z">> \o DotZip } }
    \cup { Args(c, u, <<>>, d, <<>>, <<>>, <<>>) :
          c \in {"mkdir", "rmdir"}, u \in BOOLEAN,
          d \in { <<"d">>, DirF \o <<"/", "d">>, DirF \o <<"/", "d", "/">> } }
    \cup { Args("rm", u, <<>>, <<>>, <<>>, f, <<>>) :
          u \in BOOLEAN, f \in BatchLists \cup { <<>>, <<DirF \o <<"/", "a">>>> } }
    \cup { Args("empty", u, <<>>, p, <<>>, <<>>, <<>>) :
          u \in BOOLEAN, p \in { NameA, <<"/", "a">>, DirF \o <<"/", "a">> } }

\* ls [-r] [-c] dirname
ListCommands ==
    { [Args("ls", u, d, <<>>, <<>>, <<>>, <<>>)
          EXCEPT !.recurse = r, !.ignoreerror = c] :
          u \in BOOLEAN, d \in {Root, DirF}, r \in BOOLEAN, c \in BOOLEAN }

Commands ==
    UploadCommands \cup DownloadCommands \cup OtherCommands \cup ListCommands

\* main(): the coroutine queued for the command, with its arguments
Task(c) ==
    LET T(fn, dirname, path, filelist, dst, data) ==
            [fn |-> fn, dirname |-> dirname, path |-> path,
             files |-> filelist, dst |-> dst, data |-> data]
        n == Len(c.files)
    IN  CASE c.command = "ls" ->
                 T("listfiles", c.dirname, <<>>, <<>>, <<>>, <<>>)
          [] c.command = "cat" ->
                 T("downloadfile", <<>>, c.arg, <<>>, <<>>, <<>>)
          [] c.command = "tee" ->
                 T("uploadfile", <<>>, c.arg, <<>>, <<>>, c.data)
          [] c.command = "get" ->
                 T("downloadfile", <<>>, c.arg, <<>>, <<>>, <<>>)
          [] c.command = "put" ->
                 T("uploadfile", <<>>, PathJoin(c.destination, c.arg),
                   <<>>, <<>>, c.data)
          [] c.command = "zip" ->
                 T("makezip", c.dirname, c.arg, c.files, <<>>, <<>>)
          [] c.command = "unzip" ->
                 T("unzip", <<>>, c.arg, <<>>, <<>>, <<>>)
          [] c.command = "rmdir" ->
                 T("removedir", <<>>, c.arg, <<>>, <<>>, <<>>)
          [] c.command = "mkdir" ->
                 T("createdir", <<>>, c.arg, <<>>, <<>>, <<>>)
          [] c.command = "rm" ->
                 T("delfiles", <<>>, <<>>, c.files, <<>>, <<>>)
          [] c.command = "empty" ->
                 T("emptyfile", <<>>, c.arg, <<>>, <<>>, <<>>)
          [] c.command = "cp" ->
                 T("copyfiles", c.dirname, <<>>, SubSeq(c.files, 1, n - 1),
                   c.files[n], <<>>)
          [] c.command = "mv" ->
                 T("movefiles", c.dirname, <<>>, SubSeq(c.files, 1, n - 1),
                   c.files[n], <<>>)
          [] c.command = "du" ->
                 T("calcsize", c.dirname, <<>>, c.files, <<>>, <<>>)
          [] OTHER ->
                 T("none", <<>>, <<>>, <<>>, <<>>, <<>>)

-----------------------------------------------------------------------------
(* The server, as the client sees it *)

Success == [kind |-> "Success", message |-> None]
Failure(m) == [kind |-> "Failure", message |-> m]

\* list-data responses to a listing of dirname: an error envelope (message
\* None: no message key), or a listing whose state.currentDir is the
\* directory asked for or another one the server clamped to (NoneStr: no
\* state.currentDir in the response)
ListResponses(dirname) ==
    { [status |-> "error", message |-> m, currentDir |-> NoneStr] :
          m \in {"m1", None} }
    \cup { [status |-> "success", message |-> None, currentDir |-> c] :
          c \in {dirname, Root, DirG, NoneStr} }

\* an entry of a listing's data
Entry(name, isDirectory) == [name |-> name, isDirectory |-> isDirectory]

DotDot == Entry(<<".", ".">>, TRUE)

Dot == Entry(<<".">>, TRUE)

\* what list-data may report as the entries of a directory that is depth
\* levels into the listed tree (the listed directory itself is level 1):
\* sub-directories down to level MaxDepth, none below
Listings(depth) ==
    IF depth <= MaxDepth
    THEN { << DotDot, Entry(NameA, FALSE) >>,
           << DotDot, Entry(<<"d">>, TRUE) >>,
           << Dot, DotDot, Entry(<<"f">>, TRUE), Entry(NameA, FALSE),
              Entry(<<"g">>, TRUE) >> }
    ELSE { << DotDot, Entry(NameA, FALSE) >> }

\* list-data responses to ls: an error envelope, or the directory's entries
LsResponses(dirname, depth) ==
    { [status |-> "error", message |-> "m1", currentDir |-> NoneStr,
       data |-> <<>>] }
    \cup { [status |-> "success", message |-> None, currentDir |-> dirname,
            data |-> d] : d \in Listings(depth) }

\* the session's current directory after the server answered a listing with r
CwdAfterList(r) ==
    IF r.status # "error" /\ r.currentDir # NoneStr THEN r.currentDir ELSE cwd

\* the directory the download endpoint reads from for parameter currentDir
Resolve(dirname) == IF dirname = <<>> THEN Root ELSE dirname

\* the file store after an upload of data as name into directory dir
Store(fs, dir, name, data) ==
    { x \in fs : ~(x[1] = dir /\ x[2] = name) } \cup { <<dir, name, data>> }

\* pages without a file: an error page with the message box, one without
ErrPages ==
    { << StartTag("div", <<Attr("class", ClsBoxError)>>), Data(<<"a">>),
         EndTag("div") >>,
      << StartTag("h1", <<>>), Data(<<"a">>), EndTag("h1") >> }

\* responses to the upload POST: the HTTP status, the page of the body, and
\* whether the server stored the file
UploadResponses ==
    { [stored |-> TRUE, code |-> 200, page |-> <<>>],
      [stored |-> FALSE, code |-> 500, page |-> <<>>] }
    \cup { [stored |-> FALSE, code |-> 200, page |-> page] : page \in ErrPages }

DownloadResponses(dirname, filename) ==
    LET hit == { x \in files : x[1] = Resolve(dirname) /\ x[2] = filename }
        R(cd, ct, b, page) == [cd |-> cd, ct |-> ct, body |-> b, page |-> page]
    IN  IF hit # {}
        THEN { R(TRUE, "application/octet-stream", x[3], <<>>) : x \in hit }
        ELSE { R(FALSE, "text/html", <<>>, page) : page \in ErrPages }
             \cup { R(FALSE, None, <<>>, <<>>),
                    R(FALSE, "text/plain", <<1>>, <<>>) }

\* a statusMessages entry
MsgEntries == [status : {"error", "info"}, content : {"c1", "c2"}]

\* responses of copy-files, move-files, extract-archive and calculate-size:
\* has is FALSE when the response has no statusMessages key
StatusMessageResponses ==
    { [has |-> TRUE, statusMessages |-> m] : m \in SeqsUpTo(MsgEntries, MaxMsgs) }
    \cup { [has |-> FALSE, statusMessages |-> <<>>] }

\* responses of create-directory, create-file and create-archive: message
\* None when the response has no message key
StatusResponses ==
    [status : {"error", "fail", "success"}, message : {"m1", None}]

\* the landing pages GET smb/ may return
Pages ==
    { << StartTag("meta", <<Attr("name", FPT), Attr("content", "t1")>>) >>,
      << StartEndTag("meta", <<Attr("name", FPT), Attr("content", "")>>) >>,
      << StartTag("meta", <<Attr("name", FPT)>>) >>,
      << StartTag("title", <<>>), Data(<<"x">>), EndTag("title") >> }

-----------------------------------------------------------------------------
(* One invocation of main(): start(), then the queued task *)

\* the request goes out and the coroutine waits for its response at next
Send(req, next) ==
    /\ sent' = Append(sent, req)
    /\ inflight' = <<req>>
    /\ pc' = next

\* a coroutine that goes on without awaiting the response of its request
Recv_unawaited(r) ==
    /\ inflight # <<>>
    /\ info' = info

\* the response r has arrived (resp.json() / resp.text(), resp.close()); the
\* handlers that keep the response, or leave it unclosed, count it in unclosed
Recv(r) ==
    /\ inflight # <<>>
    /\ info' = Append(info, r)

\* an exception leaves the task: main() prints ERROR and exits with 1
Raise(m) ==
    /\ result' = Failure(m)
    /\ pc' = "failed"
    /\ inflight' = <<>>
    /\ sent' = sent

\* the task returns
Return ==
    /\ result' = Success
    /\ pc' = "done"
    /\ inflight' = <<>>
    /\ sent' = sent

\* start(): if args.username, await self.login(...)
start_login ==
    /\ pc = "start"
    /\ cmd.username
    /\ Send(WH_login, "start_login")
    /\ UNCHANGED <<unclosed, frames>>
    /\ UNCHANGED <<run, cmd, token, info, result, out, body, landing, cwd,
                   files, prev>>
    /\ UNCHANGED scanvars

\* start(): the login response is closed unread
start_login_resp ==
    /\ pc = "start_login"
    /\ \E ok \in BOOLEAN : Recv([login_ok |-> ok])
    /\ inflight' = <<>>
    /\ pc' = "start_token"
    /\ UNCHANGED <<unclosed, frames>>
    /\ UNCHANGED <<run, cmd, token, sent, result, out, body, landing, cwd,
                   files, prev>>
    /\ UNCHANGED scanvars

\* start(): resp = await self.gettoken()
start_gettoken ==
    /\ \/ pc = "start" /\ ~cmd.username
       \/ pc = "start_token"
    /\ Send(WH_gettoken, "start_page")
    /\ UNCHANGED <<unclosed, frames>>
    /\ UNCHANGED <<run, cmd, token, info, result, out, body, landing, cwd,
                   files, prev>>
    /\ UNCHANGED scanvars

\* start(): self.token = ExtractToken(await resp.text()); resp.close().  An
\* exception in start() is outside main()'s try: the process dies with a
\* traceback, and the response has not been closed.
start_token ==
    /\ pc = "start_page"
    /\ \E page \in Pages :
         LET r == ExtractToken(page)
         IN  /\ Recv(page)
             /\ landing' = page
             /\ IF r.raised
                THEN /\ pc' = "crashed"
                     /\ result' = [kind |-> "Crash", message |-> "KeyError"]
                     /\ token' = token
                     /\ unclosed' = unclosed + 1
                ELSE /\ pc' = "task"
                     /\ result' = result
                     /\ token' = r.token
                     /\ unclosed' = unclosed
    /\ inflight' = <<>>
    /\ UNCHANGED frames
    /\ UNCHANGED <<run, cmd, sent, out, body, cwd, files, prev>>
    /\ UNCHANGED scanvars

-----------------------------------------------------------------------------
(* uploadfile *)

\* an uploadfile that checks the listing's status only, as copyfiles does
uploadfile_check_statusonly(r, dirname) ==
    IF r.status = "error" THEN [ok |-> FALSE, message |-> r.message]
    ELSE [ok |-> TRUE, message |-> None]

\* uploadfile, lines 332-338: what the listing response means for the upload
uploadfile_check(r, dirname) ==
    IF r.status = "error" THEN [ok |-> FALSE, message |-> r.message]
    ELSE IF r.currentDir # dirname
    THEN [ok |-> FALSE, message |-> "cannot change to directory"]
    ELSE [ok |-> TRUE, message |-> None]

\* uploadfile up to its first await: the listing when the destination has a
\* directory part, the upload itself otherwise
uploadfile_begin ==
    /\ pc = "task"
    /\ Task(cmd).fn = "uploadfile"
    /\ LET sp == PathSplit(Task(cmd).path)
       IN  IF sp[1] # <<>>
           THEN Send(WH_listdir(sp[1]), "uploadfile_list")
           ELSE Send(WH_upload(token, Task(cmd).data, sp[2]), "uploadfile_post")
    /\ UNCHANGED <<unclosed, frames>>
    /\ UNCHANGED <<run, cmd, token, info, result, out, body, landing, cwd,
                   files, prev>>
    /\ UNCHANGED scanvars

\* uploadfile after the listing response
uploadfile_list_resp ==
    /\ pc = "uploadfile_list"
    /\ LET sp == PathSplit(Task(cmd).path)
       IN  \E r \in ListResponses(sp[1]) :
             /\ Recv(r)
             /\ cwd' = CwdAfterList(r)
             /\ LET c == uploadfile_check(r, sp[1])
                IN  IF c.ok
                    THEN /\ Send(WH_upload(token, Task(cmd).data, sp[2]),
                                 "uploadfile_post")
                         /\ result' = result
                    ELSE Raise(c.message)
    /\ UNCHANGED <<unclosed, frames>>
    /\ UNCHANGED <<run, cmd, token, out, body, landing, files, prev>>
    /\ UNCHANGED scanvars

\* uploadfile after the upload response: res = await resp.text() is read and
\* dropped, the status is not looked at.  The server has stored the file in
\* its current directory, or has not.
uploadfile_post_resp ==
    /\ pc = "uploadfile_post"
    /\ \E r \in UploadResponses :
         /\ Recv(r)
         /\ files' = IF r.stored
                     THEN Store(files, cwd, inflight[1].form.filename,
                                inflight[1].form.content)
                     ELSE files
    /\ Return
    /\ UNCHANGED <<unclosed, frames>>
    /\ UNCHANGED <<run, cmd, token, out, body, landing, cwd, prev>>
    /\ UNCHANGED scanvars

-----------------------------------------------------------------------------
(* downloadfile / WebHosting.download *)

ChunkSize == 65536

\* downloadfile and download up to the first await
downloadfile_begin ==
    /\ pc = "task"
    /\ Task(cmd).fn = "downloadfile"
    /\ LET sp == PathSplit(Task(cmd).path)
       IN  Send(WH_download(sp[1], sp[2]), "download_wait")
    /\ out' = <<>>
    /\ UNCHANGED <<unclosed, frames>>
    /\ UNCHANGED <<run, cmd, token, info, result, body, landing, cwd, files,
                   prev>>
    /\ UNCHANGED scanvars

\* download, lines 188-193: the headers decide between an error page and a
\* file body.  resp.headers.get('Content-Type') is None without the header,
\* and None.startswith raises.  closed: resp.close() ran before the raise.
download_headers(r) ==
    IF ~r.cd /\ r.ct = None
    THEN [ok |-> FALSE, message |-> "AttributeError", closed |-> FALSE]
    ELSE IF ~r.cd /\ r.ct = "text/html"
    THEN LET e == ExtractError(r.page)
         IN  [ok |-> FALSE,
              message |-> IF e.raised THEN "AttributeError" ELSE e.text,
              closed |-> ~e.raised]
    ELSE [ok |-> TRUE, message |-> None, closed |-> FALSE]

download_resp ==
    /\ pc = "download_wait"
    /\ \E r \in DownloadResponses(inflight[1].params.currentDir,
                                  inflight[1].params.file) :
         /\ Recv(r)
         /\ LET h == download_headers(r)
            IN  /\ IF h.ok
                   THEN /\ body' = r.body
                        /\ pc' = "download_read"
                        /\ UNCHANGED <<result, inflight, sent>>
                   ELSE /\ Raise(h.message)
                        /\ body' = body
                /\ unclosed' = IF h.closed THEN unclosed ELSE unclosed + 1
    /\ UNCHANGED frames
    /\ UNCHANGED <<run, cmd, token, out, landing, cwd, files, prev>>
    /\ UNCHANGED scanvars

\* a download that reads once instead of looping until the empty chunk
download_chunk_once ==
    /\ pc = "download_read"
    /\ body # <<>>
    /\ \E n \in 1..Min(ChunkSize, Len(body)) :
         /\ out' = out \o SubSeq(body, 1, n)
         /\ body' = <<>>
    /\ UNCHANGED <<unclosed, frames>>
    /\ UNCHANGED <<run, pc, cmd, token, sent, inflight, info, result, landing,
                   cwd, files, prev>>
    /\ UNCHANGED scanvars

\* one resp.content.read(0x10000) that returned bytes: at most ChunkSize of
\* them, as many as had arrived
download_chunk ==
    /\ pc = "download_read"
    /\ body # <<>>
    /\ \E n \in 1..Min(ChunkSize, Len(body)) :
         /\ out' = out \o SubSeq(body, 1, n)
         /\ body' = SubSeq(body, n + 1, Len(body))
    /\ UNCHANGED <<unclosed, frames>>
    /\ UNCHANGED <<run, pc, cmd, token, sent, inflight, info, result, landing,
                   cwd, files, prev>>
    /\ UNCHANGED scanvars

\* resp.content.read or fh.write raises (the stream breaks, the destination
\* cannot be written): the exception leaves download before resp.close()
download_io_raises ==
    /\ pc = "download_read"
    /\ Raise("OSError")
    /\ UNCHANGED <<unclosed, frames>>
    /\ UNCHANGED <<run, cmd, token, info, out, body, landing, cwd, files, prev>>
    /\ UNCHANGED scanvars

\* the read that returns no bytes: break, resp.close()
download_eof ==
    /\ pc = "download_read"
    /\ body = <<>>
    /\ Return
    /\ unclosed' = unclosed - 1
    /\ UNCHANGED frames
    /\ UNCHANGED <<run, cmd, token, info, out, body, landing, cwd, files, prev>>
    /\ UNCHANGED scanvars

-----------------------------------------------------------------------------
(* The other tasks: context shift, request, classification of the response *)

Ok == [ok |-> TRUE, message |-> None]
Fail(m) == [ok |-> FALSE, message |-> m]

\* a request goes out from a task that has not failed
Go(req, next) ==
    /\ Send(req, next)
    /\ result' = result

\* "if dirname and dirname not in ('', '/')": copyfiles, movefiles, calcsize,
\* makezip (dirname is None without -C)
NeedsShift(dirname) == dirname # NoneStr /\ dirname \notin {<<>>, Root}

\* "if basepath not in ('', '/')": createdir, emptyfile
NeedsShiftPath(dirname) == dirname \notin {<<>>, Root}

\* a task that goes on whatever the context-shift listing answered
context_check_never(r) == Ok

\* after the context-shift listing: if info.get("status") == "error":
\* raise Exception(info["message"]); info["message"] raises KeyError when the
\* response has no message
context_check(r) ==
    IF r.status = "error"
    THEN Fail(IF r.message = None THEN "KeyError" ELSE r.message)
    ELSE Ok

\* info.get('statusMessages', [])
StatusMessages(r) == IF r.has THEN r.statusMessages ELSE <<>>

\* a classification that fails when any entry is an error, not the first only
statusmessages_check_any(r) ==
    LET msgs == StatusMessages(r)
        bad  == { i \in 1..Len(msgs) : msgs[i].status = "error" }
    IN  IF bad # {}
        THEN Fail(msgs[CHOOSE i \in bad : \A j \in bad : i <= j].content)
        ELSE Ok

\* copyfiles / movefiles / unzip: msgs and msgs[0].get('status') == 'error'
statusmessages_check(r) ==
    LET msgs == StatusMessages(r)
    IN  IF msgs # <<>> /\ msgs[1].status = "error"
        THEN Fail(msgs[1].content)
        ELSE Ok

\* calcsize: the same, then print(msgs[0].get('content')), which raises
\* IndexError on an empty list
calcsize_check(r) ==
    LET msgs == StatusMessages(r)
    IN  IF msgs # <<>> /\ msgs[1].status = "error" THEN Fail(msgs[1].content)
        ELSE IF msgs = <<>> THEN Fail("IndexError")
        ELSE Ok

\* createdir / emptyfile: status == "error" raises Exception(info["message"])
status_error_check(r) ==
    IF r.status = "error"
    THEN Fail(IF r.message = None THEN "KeyError" ELSE r.message)
    ELSE Ok

\* makezip: status == 'fail' raises Exception(info.get('message'))
status_fail_check(r) ==
    IF r.status = "fail" THEN Fail(r.message) ELSE Ok

\* delfiles / removedir: the response text is printed
text_check(r) == Ok

\* copyfiles: resp = await host.copy(files, destination)
copyfiles_operate ==
    Go(WH_copy(token, Task(cmd).files, Task(cmd).dst), "copyfiles_post")

\* copyfiles up to its first await
copyfiles_begin ==
    /\ pc = "task"
    /\ Task(cmd).fn = "copyfiles"
    /\ IF NeedsShift(Task(cmd).dirname)
       THEN Go(WH_listdir(Task(cmd).dirname), "copyfiles_list")
       ELSE copyfiles_operate
    /\ UNCHANGED <<unclosed, frames>>
    /\ UNCHANGED <<run, cmd, token, info, out, body, landing, cwd, files, prev>>
    /\ UNCHANGED scanvars

\* copyfiles after the listing response
copyfiles_list_resp ==
    /\ pc = "copyfiles_list"
    /\ \E r \in ListResponses(Task(cmd).dirname) :
         /\ Recv(r)
         /\ cwd' = CwdAfterList(r)
         /\ LET c == context_check(r)
            IN  IF c.ok THEN copyfiles_operate ELSE Raise(c.message)
    /\ UNCHANGED <<unclosed, frames>>
    /\ UNCHANGED <<run, cmd, token, out, body, landing, files, prev>>
    /\ UNCHANGED scanvars

\* copyfiles after the response of its request
copyfiles_resp ==
    /\ pc = "copyfiles_post"
    /\ \E r \in StatusMessageResponses :
         /\ Recv(r)
         /\ LET c == statusmessages_check(r)
            IN  IF c.ok THEN Return ELSE Raise(c.message)
    /\ UNCHANGED <<unclosed, frames>>
    /\ UNCHANGED <<run, cmd, token, out, body, landing, cwd, files, prev>>
    /\ UNCHANGED scanvars

\* movefiles: resp = await host.move(files, destination)
movefiles_operate ==
    Go(WH_move(token, Task(cmd).files, Task(cmd).dst), "movefiles_post")

\* movefiles up to its first await
movefiles_begin ==
    /\ pc = "task"
    /\ Task(cmd).fn = "movefiles"
    /\ IF NeedsShift(Task(cmd).dirname)
       THEN Go(WH_listdir(Task(cmd).dirname), "movefiles_list")
       ELSE movefiles_operate
    /\ UNCHANGED <<unclosed, frames>>
    /\ UNCHANGED <<run, cmd, token, info, out, body, landing, cwd, files, prev>>
    /\ UNCHANGED scanvars

\* movefiles after the listing response
movefiles_list_resp ==
    /\ pc = "movefiles_list"
    /\ \E r \in ListResponses(Task(cmd).dirname) :
         /\ Recv(r)
         /\ cwd' = CwdAfterList(r)
         /\ LET c == context_check(r)
            IN  IF c.ok THEN movefiles_operate ELSE Raise(c.message)
    /\ UNCHANGED <<unclosed, frames>>
    /\ UNCHANGED <<run, cmd, token, out, body, landing, files, prev>>
    /\ UNCHANGED scanvars

\* movefiles after the response of its request
movefiles_resp ==
    /\ pc = "movefiles_post"
    /\ \E r \in StatusMessageResponses :
         /\ Recv(r)
         /\ LET c == statusmessages_check(r)
            IN  IF c.ok THEN Return ELSE Raise(c.message)
    /\ UNCHANGED <<unclosed, frames>>
    /\ UNCHANGED <<run, cmd, token, out, body, landing, cwd, files, prev>>
    /\ UNCHANGED scanvars

\* calcsize: resp = await host.calcsize(files); host.calcsize raises before
\* it sends anything when a name has a '/'
calcsize_operate ==
    IF WH_calcsize_raises(Task(cmd).files)
    THEN Raise("calcsize does not operate on subdirectories")
    ELSE Go(WH_calcsize(token, Task(cmd).files), "calcsize_post")

\* calcsize up to its first await
calcsize_begin ==
    /\ pc = "task"
    /\ Task(cmd).fn = "calcsize"
    /\ IF NeedsShift(Task(cmd).dirname)
       THEN Go(WH_listdir(Task(cmd).dirname), "calcsize_list")
       ELSE calcsize_operate
    /\ UNCHANGED <<unclosed, frames>>
    /\ UNCHANGED <<run, cmd, token, info, out, body, landing, cwd, files, prev>>
    /\ UNCHANGED scanvars

\* calcsize after the listing response
calcsize_list_resp ==
    /\ pc = "calcsize_list"
    /\ \E r \in ListResponses(Task(cmd).dirname) :
         /\ Recv(r)
         /\ cwd' = CwdAfterList(r)
         /\ LET c == context_check(r)
            IN  IF c.ok THEN calcsize_operate ELSE Raise(c.message)
    /\ UNCHANGED <<unclosed, frames>>
    /\ UNCHANGED <<run, cmd, token, out, body, landing, files, prev>>
    /\ UNCHANGED scanvars

\* calcsize after the response of its request
calcsize_resp ==
    /\ pc = "calcsize_post"
    /\ \E r \in StatusMessageResponses :
         /\ Recv(r)
         /\ LET c == calcsize_check(r)
            IN  IF c.ok THEN Return ELSE Raise(c.message)
    /\ UNCHANGED <<unclosed, frames>>
    /\ UNCHANGED <<run, cmd, token, out, body, landing, cwd, files, prev>>
    /\ UNCHANGED scanvars

\* makezip, lines 360-364: the name without '.zip'; a '/' in it raises
makezip_operate ==
    LET zipname == StrRemove(Task(cmd).path, DotZip)
    IN  IF Find(zipname, <<"/">>) >= 0
        THEN Raise("use -C to specify where the zipfile goes")
        ELSE Go(WH_makezip(token, zipname, Task(cmd).files), "makezip_post")

\* makezip up to its first await
makezip_begin ==
    /\ pc = "task"
    /\ Task(cmd).fn = "makezip"
    /\ IF NeedsShift(Task(cmd).dirname)
       THEN Go(WH_listdir(Task(cmd).dirname), "makezip_list")
       ELSE makezip_operate
    /\ UNCHANGED <<unclosed, frames>>
    /\ UNCHANGED <<run, cmd, token, info, out, body, landing, cwd, files, prev>>
    /\ UNCHANGED scanvars

\* makezip after the listing response
makezip_list_resp ==
    /\ pc = "makezip_list"
    /\ \E r \in ListResponses(Task(cmd).dirname) :
         /\ Recv(r)
         /\ cwd' = CwdAfterList(r)
         /\ LET c == context_check(r)
            IN  IF c.ok THEN makezip_operate ELSE Raise(c.message)
    /\ UNCHANGED <<unclosed, frames>>
    /\ UNCHANGED <<run, cmd, token, out, body, landing, files, prev>>
    /\ UNCHANGED scanvars

\* makezip after the response of its request
makezip_resp ==
    /\ pc = "makezip_post"
    /\ \E r \in StatusResponses :
         /\ Recv(r)
         /\ LET c == status_fail_check(r)
            IN  IF c.ok THEN Return ELSE Raise(c.message)
    /\ UNCHANGED <<unclosed, frames>>
    /\ UNCHANGED <<run, cmd, token, out, body, landing, cwd, files, prev>>
    /\ UNCHANGED scanvars

\* createdir: resp = await host.mkdir(dirname), dirname the last component
createdir_operate ==
    Go(WH_mkdir(token, PathSplit(RStripSlash(Task(cmd).path))[2]),
       "createdir_post")

\* createdir up to its first await
createdir_begin ==
    /\ pc = "task"
    /\ Task(cmd).fn = "createdir"
    /\ IF NeedsShiftPath(PathSplit(RStripSlash(Task(cmd).path))[1])
       THEN Go(WH_listdir(PathSplit(RStripSlash(Task(cmd).path))[1]), "createdir_list")
       ELSE createdir_operate
    /\ UNCHANGED <<unclosed, frames>>
    /\ UNCHANGED <<run, cmd, token, info, out, body, landing, cwd, files, prev>>
    /\ UNCHANGED scanvars

\* createdir after the listing response
createdir_list_resp ==
    /\ pc = "createdir_list"
    /\ \E r \in ListResponses(PathSplit(RStripSlash(Task(cmd).path))[1]) :
         /\ Recv(r)
         /\ cwd' = CwdAfterList(r)
         /\ LET c == context_check(r)
            IN  IF c.ok THEN createdir_operate ELSE Raise(c.message)
    /\ UNCHANGED <<unclosed, frames>>
    /\ UNCHANGED <<run, cmd, token, out, body, landing, files, prev>>
    /\ UNCHANGED scanvars

\* createdir after the response of its request
createdir_resp ==
    /\ pc = "createdir_post"
    /\ \E r \in StatusResponses :
         /\ Recv(r)
         /\ LET c == status_error_check(r)
            IN  IF c.ok THEN Return ELSE Raise(c.message)
    /\ UNCHANGED <<unclosed, frames>>
    /\ UNCHANGED <<run, cmd, token, out, body, landing, cwd, files, prev>>
    /\ UNCHANGED scanvars

\* emptyfile: resp = await host.createemptyfile(filename)
emptyfile_operate ==
    Go(WH_createemptyfile(token, PathSplit(Task(cmd).path)[2]),
       "emptyfile_post")

\* emptyfile up to its first await
emptyfile_begin ==
    /\ pc = "task"
    /\ Task(cmd).fn = "emptyfile"
    /\ IF NeedsShiftPath(PathSplit(Task(cmd).path)[1])
       THEN Go(WH_listdir(PathSplit(Task(cmd).path)[1]), "emptyfile_list")
       ELSE emptyfile_operate
    /\ UNCHANGED <<unclosed, frames>>
    /\ UNCHANGED <<run, cmd, token, info, out, body, landing, cwd, files, prev>>
    /\ UNCHANGED scanvars

\* emptyfile after the listing response
emptyfile_list_resp ==
    /\ pc = "emptyfile_list"
    /\ \E r \in ListResponses(PathSplit(Task(cmd).path)[1]) :
         /\ Recv(r)
         /\ cwd' = CwdAfterList(r)
         /\ LET c == context_check(r)
            IN  IF c.ok THEN emptyfile_operate ELSE Raise(c.message)
    /\ UNCHANGED <<unclosed, frames>>
    /\ UNCHANGED <<run, cmd, token, out, body, landing, files, prev>>
    /\ UNCHANGED scanvars

\* emptyfile after the response of its request
emptyfile_resp ==
    /\ pc = "emptyfile_post"
    /\ \E r \in StatusResponses :
         /\ Recv(r)
         /\ LET c == status_error_check(r)
            IN  IF c.ok THEN Return ELSE Raise(c.message)
    /\ UNCHANGED <<unclosed, frames>>
    /\ UNCHANGED <<run, cmd, token, out, body, landing, cwd, files, prev>>
    /\ UNCHANGED scanvars

-----------------------------------------------------------------------------
(* listfiles *)

Frame(dirname, todo) == [dirname |-> dirname, todo |-> todo]

\* a recursion that visits every entry but '.' and '..', directory or not
SubDirs_anyentry(data) ==
    LET keep(e) == e.name \notin {<<".", ".">>, <<".">>}
        picked  == SelectSeq(data, keep)
    IN  [i \in 1..Len(picked) |-> picked[i].name]

\* listfiles, lines 303-304: the names the recursion visits, in the order of
\* info["data"]
SubDirs(data) ==
    LET keep(e) == e.isDirectory /\ e.name \notin {<<".", ".">>, <<".">>}
        picked  == SelectSeq(data, keep)
    IN  [i \in 1..Len(picked) |-> picked[i].name]

\* the calls of listfiles that still have an entry to visit: a call whose
\* loop is finished returns to its caller
RECURSIVE Unwind(_)
Unwind(fr) ==
    IF fr = <<>> THEN <<>>
    ELSE IF fr[Len(fr)].todo = <<>> THEN Unwind(SubSeq(fr, 1, Len(fr) - 1))
    ELSE fr

\* listfiles up to its first await
listfiles_begin ==
    /\ pc = "task"
    /\ Task(cmd).fn = "listfiles"
    /\ Go(WH_listdir(Task(cmd).dirname), "listfiles_wait")
    /\ frames' = << Frame(Task(cmd).dirname, <<>>) >>
    /\ out' = <<>>
    /\ UNCHANGED unclosed
    /\ UNCHANGED <<run, cmd, token, info, body, landing, cwd, files, prev>>
    /\ UNCHANGED scanvars

\* listfiles from the response of its listing to the next await: the error
\* branch, the printed listing, and the recursion into the next directory,
\* in this call or, when this call's loop is finished, in a caller
listfiles_resp ==
    /\ pc = "listfiles_wait"
    /\ LET n       == Len(frames)
           dirname == frames[n].dirname
       IN  \E r \in LsResponses(dirname, n) :
             /\ Recv(r)
             /\ cwd' = CwdAfterList(r)
             /\ IF r.status = "error" /\ ~cmd.ignoreerror
                THEN /\ Raise(r.message)
                     /\ out' = out
                     /\ frames' = <<>>
                ELSE LET todo == IF r.status # "error" /\ cmd.recurse
                                 THEN SubDirs(r.data) ELSE <<>>
                         fr   == Unwind(Append(SubSeq(frames, 1, n - 1),
                                               Frame(dirname, todo)))
                         m    == Len(fr)
                     IN  /\ out' = Append(out, [dirname |-> dirname,
                                                 error |-> r.status = "error"])
                         /\ IF fr = <<>>
                            THEN /\ Return
                                 /\ frames' = <<>>
                            ELSE LET next == PathJoin(fr[m].dirname,
                                                      Head(fr[m].todo))
                                 IN  /\ Go(WH_listdir(next), "listfiles_wait")
                                     /\ frames' =
                                            Append(
                                              [fr EXCEPT ![m].todo = Tail(@)],
                                              Frame(next, <<>>))
    /\ UNCHANGED unclosed
    /\ UNCHANGED <<run, cmd, token, body, landing, files, prev>>
    /\ UNCHANGED scanvars

-----------------------------------------------------------------------------
\* unzip: resp = await host.unzip(zipname)
unzip_operate == Go(WH_unzip(token, Task(cmd).path), "unzip_post")

\* unzip up to its first await
unzip_begin ==
    /\ pc = "task"
    /\ Task(cmd).fn = "unzip"
    /\ unzip_operate
    /\ UNCHANGED <<unclosed, frames>>
    /\ UNCHANGED <<run, cmd, token, info, out, body, landing, cwd, files, prev>>
    /\ UNCHANGED scanvars

\* unzip after the response of its request
unzip_resp ==
    /\ pc = "unzip_post"
    /\ \E r \in StatusMessageResponses :
         /\ Recv(r)
         /\ LET c == statusmessages_check(r)
            IN  IF c.ok THEN Return ELSE Raise(c.message)
    /\ UNCHANGED <<unclosed, frames>>
    /\ UNCHANGED <<run, cmd, token, out, body, landing, cwd, files, prev>>
    /\ UNCHANGED scanvars

\* removedir: resp = await host.delfiles([dirname])
removedir_operate == Go(WH_delfiles(token, <<Task(cmd).path>>), "removedir_post")

\* removedir up to its first await
removedir_begin ==
    /\ pc = "task"
    /\ Task(cmd).fn = "removedir"
    /\ removedir_operate
    /\ UNCHANGED <<unclosed, frames>>
    /\ UNCHANGED <<run, cmd, token, info, out, body, landing, cwd, files, prev>>
    /\ UNCHANGED scanvars

\* removedir after the response of its request
removedir_resp ==
    /\ pc = "removedir_post"
    /\ \E r \in {[text |-> "ok"], [text |-> "error"]} :
         /\ Recv(r)
         /\ LET c == text_check(r)
            IN  IF c.ok THEN Return ELSE Raise(c.message)
    /\ UNCHANGED <<unclosed, frames>>
    /\ UNCHANGED <<run, cmd, token, out, body, landing, cwd, files, prev>>
    /\ UNCHANGED scanvars

\* delfiles: resp = await host.delfiles(files)
delfiles_operate == Go(WH_delfiles(token, Task(cmd).files), "delfiles_post")

\* delfiles up to its first await
delfiles_begin ==
    /\ pc = "task"
    /\ Task(cmd).fn = "delfiles"
    /\ delfiles_operate
    /\ UNCHANGED <<unclosed, frames>>
    /\ UNCHANGED <<run, cmd, token, info, out, body, landing, cwd, files, prev>>
    /\ UNCHANGED scanvars

\* delfiles after the response of its request
delfiles_resp ==
    /\ pc = "delfiles_post"
    /\ \E r \in {[text |-> "ok"], [text |-> "error"]} :
         /\ Recv(r)
         /\ LET c == text_check(r)
            IN  IF c.ok THEN Return ELSE Raise(c.message)
    /\ UNCHANGED <<unclosed, frames>>
    /\ UNCHANGED <<run, cmd, token, out, body, landing, cwd, files, prev>>
    /\ UNCHANGED scanvars

-----------------------------------------------------------------------------
(* Specifications *)

\* files the server holds before the first invocation
InitialFiles == { {}, { <<Root, NameA, <<1, 0>>>> } }

InitMain(commands) ==
    /\ run = 1
    /\ pc = "start"
    /\ cmd \in commands
    /\ token = None
    /\ sent = <<>>
    /\ inflight = <<>>
    /\ info = <<>>
    /\ result = NoResult
    /\ out = <<>>
    /\ body = <<>>
    /\ landing = <<>>
    /\ cwd = Root
    /\ files \in InitialFiles
    /\ prev = NoPrev
    /\ unclosed = 0
    /\ frames = <<>>

\* the upload's process has ended; an invocation of a download command
\* starts, a new session against the same server
NewInvocation ==
    /\ pc \in {"done", "failed", "crashed"}
    /\ run = 1
    /\ Task(cmd).fn = "uploadfile"
    /\ run' = run + 1
    /\ pc' = "start"
    /\ cmd' \in DownloadCommands
    /\ token' = None
    /\ sent' = <<>>
    /\ inflight' = <<>>
    /\ info' = <<>>
    /\ result' = NoResult
    /\ out' = <<>>
    /\ body' = <<>>
    /\ landing' = <<>>
    /\ cwd' = Root
    /\ prev' = IF /\ pc = "done"
                  /\ Task(cmd).fn = "uploadfile"
                  /\ info[Len(info)].stored
               THEN [stored |-> TRUE, path |-> Task(cmd).path,
                     data |-> Task(cmd).data]
               ELSE NoPrev
    /\ unclosed' = 0
    /\ UNCHANGED <<files, frames>>
    /\ UNCHANGED scanvars

InitTransfer == ScanIdle /\ InitMain(UploadCommands)

NextTransfer ==
    \/ start_login
    \/ start_login_resp
    \/ start_gettoken
    \/ start_token
    \/ uploadfile_begin
    \/ uploadfile_list_resp
    \/ uploadfile_post_resp
    \/ downloadfile_begin
    \/ download_resp
    \/ download_chunk
    \/ download_eof
    \/ NewInvocation

\* an upload invocation, then a download invocation against the same server
SpecTransfer == InitTransfer /\ [][NextTransfer]_vars

Init == ScanIdle /\ InitMain(Commands)

Next ==
    \/ start_login
    \/ start_login_resp
    \/ start_gettoken
    \/ start_token
    \/ uploadfile_begin
    \/ uploadfile_list_resp
    \/ uploadfile_post_resp
    \/ downloadfile_begin
    \/ download_resp
    \/ download_chunk
    \/ download_eof
    \/ download_io_raises
    \/ copyfiles_begin
    \/ copyfiles_list_resp
    \/ copyfiles_resp
    \/ movefiles_begin
    \/ movefiles_list_resp
    \/ movefiles_resp
    \/ calcsize_begin
    \/ calcsize_list_resp
    \/ calcsize_resp
    \/ makezip_begin
    \/ makezip_list_resp
    \/ makezip_resp
    \/ createdir_begin
    \/ createdir_list_resp
    \/ createdir_resp
    \/ emptyfile_begin
    \/ emptyfile_list_resp
    \/ emptyfile_resp
    \/ unzip_begin
    \/ unzip_resp
    \/ removedir_begin
    \/ removedir_resp
    \/ delfiles_begin
    \/ delfiles_resp
    \/ listfiles_begin
    \/ listfiles_resp

\* one invocation of main() with any command
Spec == Init /\ [][Next]_vars

\* ls of the root, without credentials
InitList ==
    /\ ScanIdle
    /\ InitMain(ListCommands)
    /\ files = {}
    /\ ~cmd.username
    /\ cmd.dirname = Root

NextList ==
    \/ start_gettoken
    \/ start_token
    \/ listfiles_begin
    \/ listfiles_resp

\* one invocation of main() with the command ls; the event loop runs the
\* coroutine on while it can take a step, and every request is answered
SpecList == InitList /\ [][NextList]_vars /\ WF_vars(NextList)

-----------------------------------------------------------------------------
(* Claims about the markup scanner (checked under SpecScan) *)

IsTokenMeta(ev) ==
    /\ ev.type \in {"start", "startend"}
    /\ ev.tag = "meta"
    /\ DictGet(ev.attrs, "name", None) = FPT

\* the content attribute of the first forgery_protection_token meta tag of
\* the markup; None when the markup has no such tag
FirstTokenOf(evs) ==
    LET hits == { i \in 1..Len(evs) : IsTokenMeta(evs[i]) }
    IN  IF hits = {} THEN None
        ELSE DictGet(evs[CHOOSE i \in hits : \A j \in hits : i <= j].attrs,
                     "content", None)

\* C8: ExtractToken never raises, and returns the content attribute of the
\* first meta tag (open or self-closing) named forgery_protection_token,
\* None when the markup has no such tag.
C8_FirstTokenNeverRaises ==
    parser = "token" =>
        /\ pstate # "raised"
        /\ pstate = "closed" => ret = FirstTokenOf(fed)

RECURSIVE Balanced(_, _)
\* every end tag closes the element opened last, and none stays open
Balanced(open, evs) ==
    IF evs = <<>> THEN open = <<>>
    ELSE LET ev == Head(evs)
         IN  CASE ev.type = "start" /\ ev.tag \notin VoidTags ->
                      Balanced(Append(open, ev.tag), Tail(evs))
               [] ev.type = "end" ->
                      /\ open # <<>>
                      /\ open[Len(open)] = ev.tag
                      /\ Balanced(SubSeq(open, 1, Len(open) - 1), Tail(evs))
               [] OTHER -> Balanced(open, Tail(evs))

IsErrorDiv(ev) ==
    /\ ev.type = "start"
    /\ ev.tag = "div"
    /\ DictGet(ev.attrs, "class", <<>>) # NoneStr
    /\ Find(DictGet(ev.attrs, "class", <<>>), MsgError) >= 0

AllAttrsValued(evs) ==
    \A i \in 1..Len(evs) :
        evs[i].type \in {"start", "startend"} =>
            DictGet(evs[i].attrs, "class", <<>>) # NoneStr

RECURSIVE TextInside(_, _, _, _)
\* the text nodes between the first msg-error div's start tag and its end
\* tag, in document order.  depth: open elements; cap: depth of that div,
\* 0 before it starts, -1 after it has ended.
TextInside(depth, cap, acc, evs) ==
    IF evs = <<>> THEN acc
    ELSE LET ev == Head(evs)
         IN  CASE ev.type = "start" /\ ev.tag \notin VoidTags ->
                      TextInside(depth + 1,
                                 IF cap = 0 /\ IsErrorDiv(ev) THEN depth + 1
                                 ELSE cap,
                                 acc, Tail(evs))
               [] ev.type = "end" ->
                      TextInside(depth - 1,
                                 IF cap = depth THEN -1 ELSE cap,
                                 acc, Tail(evs))
               [] ev.type = "data" /\ cap > 0 ->
                      TextInside(depth, cap, Append(acc, ev.data), Tail(evs))
               [] OTHER -> TextInside(depth, cap, acc, Tail(evs))

RECURSIVE JoinSpace(_)
JoinSpace(texts) ==
    IF texts = <<>> THEN <<>>
    ELSE IF Len(texts) = 1 THEN texts[1]
    ELSE texts[1] \o <<" ">> \o JoinSpace(Tail(texts))

\* C9: for well-formed markup with a div whose class contains msg-error at
\* any position, ExtractError returns the text nodes inside that div, in
\* document order, joined by single spaces and trimmed.
C9_ErrorTextOfAnyMsgErrorDiv ==
    ( /\ parser = "error"
      /\ pstate = "closed"
      /\ AllAttrsValued(fed)
      /\ Balanced(<<>>, fed)
      /\ \E i \in 1..Len(fed) : IsErrorDiv(fed[i]) )
    => ret = Strip(JoinSpace(TextInside(0, 0, <<>>, fed)))

\* the step is ErrorFilter.handle_endtag
C10_EndTagStep ==
    /\ parser = "error"
    /\ Len(fed') = Len(fed) + 1
    /\ fed'[Len(fed')].type = "end"

C10_Recovery ==
    LET tag == fed'[Len(fed')].tag
        n   == Len(stack)
        m   == Len(stack')
    IN  /\ pstate' # "raised"
        /\ (n = 0 \/ stack[n] # tag) =>
             IF \E i \in 1..n : stack[i] = tag
             THEN /\ m < n
                  /\ stack' = SubSeq(stack, 1, m)
                  /\ stack[m + 1] = tag
                  /\ \A j \in (m + 2)..n : stack[j] # tag
             ELSE stack' = stack

C10_VoidNeverOnStack == \A i \in 1..Len(stack) : stack[i] \notin VoidTags

\* C10: an end tag never raises; one that does not match the top of the stack
\* cuts the stack back to just below the innermost open element of that name
\* when there is one and leaves it unchanged when there is none; void tags are
\* never on the stack.
C10_UnbalancedTolerated ==
    /\ []C10_VoidNeverOnStack
    /\ [][C10_EndTagStep => C10_Recovery]_vars

\* <p><div><p><div></p>: the end tag does not match the open div on top, and
\* the stack is cut back to just below the inner p, the outer p staying open
C10_Witness ==
    /\ parser = "error"
    /\ pstate = "feeding"
    /\ fed = << StartTag("p", <<>>), StartTag("div", <<Attr("class", ClsBox)>>),
                StartTag("p", <<>>), StartTag("div", <<Attr("class", ClsBox)>>),
                EndTag("p") >>
    /\ stack = << "p", "div" >>


-----------------------------------------------------------------------------
(* Claims about upload followed by download (checked under SpecTransfer) *)

\* C7: when an upload of data to a path was stored by the server and the next
\* invocation downloads the same path, the download completes and has written
\* to its destination exactly the uploaded bytes, in order.
C7_RoundTrip ==
    ( /\ run = 2
      /\ prev.stored
      /\ Task(cmd).path = prev.path
      /\ pc \in {"done", "failed"} )
    => /\ pc = "done"
       /\ out = prev.data

\* two bytes uploaded into a directory other than the root have come back
C7_Witness ==
    /\ run = 2
    /\ prev.stored
    /\ prev.path = <<"/", "f", "/", "a">>
    /\ Task(cmd).path = prev.path
    /\ pc = "done"
    /\ out = <<0, 1>>


-----------------------------------------------------------------------------
(* Claims about one invocation (checked under Spec) *)

\* the operation-specific requests that name files without a directory
BareNameKinds ==
    {"upload", "copy-files", "move-files", "create-archive", "calculate-size",
     "create-directory", "create-file", "delete", "extract-archive"}

\* the directory the task splits off, or is given with -C, for the files its
\* request names; none for the tasks that send their names as given
ActingDir(t) ==
    CASE t.fn \in {"copyfiles", "movefiles", "calcsize", "makezip"} ->
             IF t.dirname = NoneStr THEN <<>> ELSE t.dirname
      [] t.fn = "createdir" -> PathSplit(RStripSlash(t.path))[1]
      [] t.fn \in {"uploadfile", "emptyfile"} -> PathSplit(t.path)[1]
      [] OTHER -> <<>>

\* the last listing request before request i, 0 when there is none
LastListBefore(i) ==
    LET ls == { j \in 1..(i - 1) : sent[j].kind = "list-data" }
    IN  IF ls = {} THEN 0 ELSE CHOOSE j \in ls : \A k \in ls : k <= j

\* C1: before a request that names bare files in a directory other than the
\* root, the session's last listing request was for that directory and the
\* listing reported that directory as state.currentDir.
C1_ContextVerifiedBeforeOperation ==
    \A i \in 1..Len(sent) :
        ( /\ sent[i].kind \in BareNameKinds
          /\ ActingDir(Task(cmd)) \notin {<<>>, Root} )
        => LET j == LastListBefore(i)
           IN  /\ j > 0
               /\ sent[j].params.currentDir = ActingDir(Task(cmd))
               /\ info[j].status # "error"
               /\ info[j].currentDir = ActingDir(Task(cmd))

OnlyStartRequestsSent == \A i \in 1..Len(sent) : sent[i].kind \in StartKinds

\* C2: a landing page without a forgery_protection_token meta tag ends the
\* invocation in start with no file operation request sent, and after a
\* successful start the token is a non-empty string.
C2_MissingTokenIsFatal ==
    /\ ( /\ landing # <<>>
         /\ \A i \in 1..Len(landing) : ~IsTokenMeta(landing[i]) )
       => /\ pc = "crashed"
          /\ OnlyStartRequestsSent
    /\ pc \notin {"start", "start_login", "start_token", "start_page", "crashed"}
       => /\ token # None
          /\ token # ""

UploadSent == \E i \in 1..Len(sent) : sent[i].kind = "upload"

\* C3: in an upload to a destination with a directory part, a listing
\* response with status error fails the upload with the listing's message,
\* and one that reports another state.currentDir than the directory asked
\* for fails the upload too; in both cases the upload POST is never sent.
C3_UploadContextChecked ==
    ( /\ Task(cmd).fn = "uploadfile"
      /\ PathSplit(Task(cmd).path)[1] # <<>> )
    => \A i \in 1..Len(info) :
         sent[i].kind = "list-data" =>
           /\ info[i].status = "error" =>
                /\ pc = "failed"
                /\ result = Failure(info[i].message)
                /\ ~UploadSent
           /\ ( /\ info[i].status # "error"
                /\ info[i].currentDir # PathSplit(Task(cmd).path)[1] ) =>
                /\ pc = "failed"
                /\ result.kind = "Failure"
                /\ ~UploadSent

\* the listing of /f answered with state.currentDir = /g and no error status
C3_Witness ==
    /\ Task(cmd).fn = "uploadfile"
    /\ PathSplit(Task(cmd).path)[1] = DirF
    /\ pc = "failed"
    /\ Len(sent) > 0
    /\ Len(info) = Len(sent)
    /\ sent[Len(sent)].kind = "list-data"
    /\ info[Len(info)].status = "success"
    /\ info[Len(info)].currentDir = DirG
    /\ result = Failure("cannot change to directory")

ValidationMessages ==
    {"calcsize does not operate on subdirectories",
     "use -C to specify where the zipfile goes"}

\* C4: a task that failed with a locally detected validation error has sent
\* no request of its own, the context-shift listing included.
C4_ValidationBeforeAnyRequest ==
    ( /\ Task(cmd).fn \in {"calcsize", "makezip"}
      /\ pc = "failed"
      /\ result.message \in ValidationMessages )
    => OnlyStartRequestsSent

\* C5: copy, move and extract end in Failure with the first statusMessages
\* entry's content exactly when that list is not empty and its first entry
\* has status error, and in Success for every other response.
C5_FirstStatusMessageDecides ==
    ( /\ Task(cmd).fn \in {"copyfiles", "movefiles", "unzip"}
      /\ pc \in {"done", "failed"}
      /\ sent[Len(sent)].kind \in {"copy-files", "move-files", "extract-archive"} )
    => LET r    == info[Len(info)]
           msgs == IF r.has THEN r.statusMessages ELSE <<>>
       IN  IF msgs # <<>> /\ msgs[1].status = "error"
           THEN pc = "failed" /\ result = Failure(msgs[1].content)
           ELSE pc = "done" /\ result = Success

\* a copy whose response has an error entry after a first info entry
C5_Witness ==
    /\ Task(cmd).fn = "copyfiles"
    /\ pc = "done"
    /\ result = Success
    /\ sent[Len(sent)].kind = "copy-files"
    /\ info[Len(info)].has
    /\ Len(info[Len(info)].statusMessages) = 2
    /\ info[Len(info)].statusMessages[1].status = "info"
    /\ info[Len(info)].statusMessages[2].status = "error"

\* the token of the form request r carries
FormToken(r) ==
    IF r.kind = "upload" THEN r.form.form.forgery_protection_token
    ELSE r.form.forgery_protection_token

C6_RequestsFollowStart ==
    \A i \in 1..Len(sent) :
        sent[i].kind \notin StartKinds =>
            /\ \E j \in 1..(i - 1) : sent[j].kind = "smb/"
            /\ landing # <<>>
            /\ ~ExtractToken(landing).raised
            /\ sent[i].kind \in FormKinds \cup {"upload"} =>
                   FormToken(sent[i]) = ExtractToken(landing).token

\* C6: no file operation request is sent before start has fetched the landing
\* page and extracted the token, every form carries the value start
\* extracted, and only start assigns the token.
C6_TokenFromStartOnly ==
    /\ []C6_RequestsFollowStart
    /\ [][token' # token => pc = "start_page"]_vars

\* a move request carrying the token t1 that start extracted
C6_Witness ==
    /\ Len(sent) > 0
    /\ sent[Len(sent)].kind = "move-files"
    /\ token = "t1"
    /\ FormToken(sent[Len(sent)]) = "t1"


-----------------------------------------------------------------------------
(* Claims about resources and the outcome of transfers (checked under Spec) *)

\* C11: when a task has ended, by return or by an exception raised in it,
\* every response it acquired has been closed.
C11_ResponsesClosedOnExit ==
    pc \in {"done", "failed"} => unclosed = 0

\* C12: an upload whose POST was answered ends in Success when the response
\* is 2xx and its body has no scanned error text, and in Failure when the
\* response is not 2xx or its body has scanned error text.
C12_UploadOutcome ==
    ( /\ Task(cmd).fn = "uploadfile"
      /\ pc \in {"done", "failed"}
      /\ sent[Len(sent)].kind = "upload" )
    => LET r == info[Len(info)]
       IN  IF r.code \in 200..299 /\ ExtractError(r.page).text = <<>>
           THEN pc = "done" /\ result = Success
           ELSE pc = "failed" /\ result.kind = "Failure"

\* the step in which download receives its response
C13_HeaderStep ==
    (pc = "download_wait" /\ pc' # pc)
    => LET r == info'[Len(info')]
       IN  IF ~r.cd /\ r.ct = "text/html"
           THEN /\ pc' = "failed"
                /\ result' = Failure(ExtractError(r.page).text)
           ELSE /\ pc' = "download_read"
                /\ body' = r.body
                /\ out' = <<>>

\* a download that returned has written the whole body, in order
C13_Written ==
    (Task(cmd).fn = "downloadfile" /\ pc = "done")
    => out = info[Len(info)].body

\* C13: download fails with the scanned error text exactly when the response
\* has no Content-Disposition header and an html content type; with every
\* other response, one with neither header included, it goes on to read the
\* body, and when it returns it has written every chunk in arrival order.
C13_DownloadFailureCriterion ==
    /\ [][C13_HeaderStep]_vars
    /\ []C13_Written

\* C14: with credentials the login request goes out before the landing page
\* is fetched, and after a login the server refused no token is accepted and
\* no file operation request is sent.
C14_FailedLoginIsFatal ==
    /\ cmd.username =>
          \A i \in 1..Len(sent) :
              sent[i].kind = "smb/" =>
                  \E j \in 1..(i - 1) : sent[j].kind = "login_up.php3"
    /\ ( /\ cmd.username
         /\ Len(info) >= 1
         /\ ~info[1].login_ok )
       => /\ token = None
          /\ OnlyStartRequestsSent

\* the requests of the batch operations
BatchKinds ==
    {"delete", "copy-files", "move-files", "create-archive", "calculate-size"}

\* the file list the task hands to the session's method
BatchFiles(t) == IF t.fn = "removedir" THEN <<t.path>> ELSE t.files

\* C15: the form of every batch request has exactly the selection fields
\* ids[0]..ids[n-1], ids[i] the i-th file of the list the operation was
\* called with (counted from 0), the session's token, and as named fields
\* archiveName for the archive request and none for the others.
C15_SelectionFieldsInOrder ==
    \A i \in 1..Len(sent) :
        sent[i].kind \in BatchKinds =>
            LET f    == BatchFiles(Task(cmd))
                form == sent[i].form
            IN  /\ DOMAIN form.ids = 0..(Len(f) - 1)
                /\ \A k \in 0..(Len(f) - 1) : form.ids[k] = f[k + 1]
                /\ form.forgery_protection_token = token
                /\ DOMAIN form.named =
                       IF sent[i].kind = "create-archive"
                       THEN {"archiveName"} ELSE {}

\* du b a: the request selects b as ids[0] and a as ids[1]
C15_Witness ==
    /\ Len(sent) > 0
    /\ sent[Len(sent)].kind = "calculate-size"
    /\ Task(cmd).files = <<NameB, NameA>>
    /\ sent[Len(sent)].form.ids[0] = NameB
    /\ sent[Len(sent)].form.ids[1] = NameA

\* the tasks that perform a context shift
ShiftingTasks ==
    {"uploadfile", "copyfiles", "movefiles", "calcsize", "makezip",
     "createdir", "emptyfile"}

\* C16: a task whose acting directory is the root or empty sends no listing
\* request.
C16_RootNeedsNoShift ==
    ( /\ Task(cmd).fn \in ShiftingTasks
      /\ ActingDir(Task(cmd)) \in {<<>>, Root} )
    => \A i \in 1..Len(sent) : sent[i].kind # "list-data"

\* C17: when the context-shift listing of a task is answered with status
\* error, the task fails, with the listing's message when it has one, and
\* sends no request after the listing.
C17_ListingErrorFailsOperation ==
    Task(cmd).fn \in ShiftingTasks =>
        \A i \in 1..Len(info) :
            (sent[i].kind = "list-data" /\ info[i].status = "error") =>
                /\ pc = "failed"
                /\ result.kind = "Failure"
                /\ info[i].message # None => result.message = info[i].message
                /\ Len(sent) = i

\* mv -C /f a /g: the listing of /f was answered with an error and message m1
C17_Witness ==
    /\ Task(cmd).fn = "movefiles"
    /\ Task(cmd).dirname = DirF
    /\ pc = "failed"
    /\ Len(sent) > 0
    /\ Len(info) = Len(sent)
    /\ sent[Len(sent)].kind = "list-data"
    /\ info[Len(info)].status = "error"
    /\ result = Failure("m1")

-----------------------------------------------------------------------------
(* Claims about the order of requests (checked under Spec) *)

\* requests sent and not yet answered
InFlight == Len(sent) - Len(info)

\* a request goes out only when every earlier request has been answered
C18_SendStep == Len(sent') > Len(sent) => Len(info') = Len(sent)

\* the requests come as start's, then the task's: a context-shift listing is
\* followed by the request of its own operation, which is the task's last,
\* and only a listing task sends one listing after another
C18_Pairs ==
    \A i \in 1..(Len(sent) - 1) :
        /\ sent[i].kind \notin StartKinds => sent[i + 1].kind \notin StartKinds
        /\ sent[i].kind = "list-data" =>
               IF Task(cmd).fn = "listfiles"
               THEN sent[i + 1].kind = "list-data"
               ELSE sent[i + 1].kind \in BareNameKinds
        /\ sent[i].kind \notin BareNameKinds \cup {"download"}

\* C18: at most one request of the session is in flight at any time, a
\* request is sent only after the response of the one before it, and the
\* task's requests follow start's as a context shift and its operation, or
\* as the listings of a recursive listing one after another.
C18_OneRequestAtATime ==
    /\ [](InFlight \in {0, 1} /\ C18_Pairs)
    /\ [][C18_SendStep]_vars

\* ls -r /: four directories listed one after the other, all answered
C18_Witness ==
    /\ Task(cmd).fn = "listfiles"
    /\ cmd.recurse
    /\ pc = "done"
    /\ Len(out) = 4
    /\ Len(info) = Len(sent)

\* the path arguments of the tasks that are given paths
PathArgs(t) ==
    CASE t.fn \in {"uploadfile", "emptyfile", "unzip"} -> {t.path}
      [] t.fn \in {"createdir", "removedir"} -> {RStripSlash(t.path)}
      [] t.fn = "delfiles" -> { t.files[i] : i \in 1..Len(t.files) }
      [] OTHER -> {}

\* C19: before the operation-specific request of a task given a path whose
\* directory part is not the root, a listing request for that directory
\* part has been sent.
C19_ListingBeforeEveryOperation ==
    \A p \in PathArgs(Task(cmd)) :
        PathSplit(p)[1] \notin {<<>>, Root} =>
            \A i \in 1..Len(sent) :
                sent[i].kind \in BareNameKinds =>
                    \E j \in 1..(i - 1) :
                        /\ sent[j].kind = "list-data"
                        /\ sent[j].params.currentDir = PathSplit(p)[1]

-----------------------------------------------------------------------------
(* Claims about the archive operation (checked under Spec) *)

\* a file name without its trailing extension: the part before its last dot
WithoutExtension(name) ==
    LET i == RFind(name, <<".">>)
    IN  IF i >= 0 THEN SubSeq(name, 1, i) ELSE name

\* C20: the create-archive request carries as archiveName the archive name
\* the task was given without its trailing extension, and a task whose
\* create-archive request was answered fails with the response's message
\* exactly when the response's status is fail.
C20_ArchiveNameAndOutcome ==
    /\ \A i \in 1..Len(sent) :
           sent[i].kind = "create-archive" =>
               sent[i].form.named.archiveName =
                   WithoutExtension(Task(cmd).path)
    /\ ( /\ Task(cmd).fn = "makezip"
         /\ pc \in {"done", "failed"}
         /\ sent[Len(sent)].kind = "create-archive" )
       => IF info[Len(info)].status = "fail"
          THEN pc = "failed" /\ result = Failure(info[Len(info)].message)
          ELSE pc = "done" /\ result = Success

-----------------------------------------------------------------------------
(* Claims about listing (checked under SpecList) *)

\* the positions in sent of the listing requests
ListingRequests == { i \in 1..Len(sent) : sent[i].kind = "list-data" }

\* the directories that the answered listing request i reported: the entries
\* that are directories and are not named '.' or '..'
ReportedDirs(i) ==
    IF i > Len(info) \/ info[i].status = "error" THEN {}
    ELSE { PathJoin(sent[i].params.currentDir, info[i].data[k].name) :
               k \in { k \in 1..Len(info[i].data) :
                          /\ info[i].data[k].isDirectory
                          /\ info[i].data[k].name # <<".">>
                          /\ info[i].data[k].name # <<".", ".">> } }

\* no directory is listed twice, and a directory is listed only when it is
\* the one the command names or one an earlier listing reported
C21_OnlyDirectoriesOnce ==
    \A i \in ListingRequests :
        /\ \A j \in ListingRequests :
               sent[i].params.currentDir = sent[j].params.currentDir => i = j
        /\ \/ i = CHOOSE m \in ListingRequests :
                       \A j \in ListingRequests : m <= j
           \/ \E j \in ListingRequests :
                  j < i /\ sent[i].params.currentDir \in ReportedDirs(j)

\* what a finished listing has listed
C21_Complete ==
    pc = "done" =>
        /\ Cardinality(ListingRequests) >= 1
        /\ cmd.recurse =>
               \A j \in ListingRequests : \A d \in ReportedDirs(j) :
                   \E i \in ListingRequests : sent[i].params.currentDir = d
        /\ ~cmd.recurse => Cardinality(ListingRequests) = 1

\* C21: ls without the recurse option sends exactly one listing request; with
\* it, the listing terminates, lists no directory twice, lists only the named
\* directory and entries reported as directories other than '.' and '..',
\* and when it returns has listed every directory reported; with ignoreerror
\* an error status for a directory never fails the listing, so the
\* directories after it are listed too.
C21_RecursiveListing ==
    /\ [](C21_OnlyDirectoriesOnce /\ C21_Complete)
    /\ [](~cmd.recurse => Cardinality(ListingRequests) <= 1)
    /\ [](cmd.ignoreerror => pc # "failed")
    /\ <>(pc \in {"done", "failed", "crashed"})

\* ls -r -c /: the listing of /f was answered with an error, and /g, the
\* directory after it, has been listed
C21_Witness ==
    /\ cmd.recurse
    /\ cmd.ignoreerror
    /\ pc = "done"
    /\ Len(out) = 3
    /\ out[1] = [dirname |-> Root, error |-> FALSE]
    /\ out[2] = [dirname |-> DirF, error |-> TRUE]
    /\ out[3] = [dirname |-> DirG, error |-> FALSE]

-----------------------------------------------------------------------------
(* Claims about the span of error capture (checked under SpecScan) *)

RECURSIVE OpenElements(_, _)
\* the elements open after the events evs, outermost first, each with its
\* tag and whether it is a msg-error div: a start tag opens an element, an
\* end tag closes the innermost open element of its name and all inside it,
\* an end tag that matches no open element closes nothing
OpenElements(st, evs) ==
    IF evs = <<>> THEN st
    ELSE LET ev == Head(evs)
             same == { i \in 1..Len(st) : ev.type = "end" /\ st[i].tag = ev.tag }
         IN  CASE ev.type = "start" /\ ev.tag \notin VoidTags ->
                      OpenElements(
                          Append(st, [tag |-> ev.tag, err |-> IsErrorDiv(ev)]),
                          Tail(evs))
               [] ev.type = "end" /\ same # {} ->
                      OpenElements(
                          SubSeq(st, 1,
                                 (CHOOSE i \in same : \A j \in same : j <= i) - 1),
                          Tail(evs))
               [] OTHER -> OpenElements(st, Tail(evs))

\* the markup has at most one msg-error div, and its class value does not
\* begin with msg-error
OneErrorDiv(evs) ==
    /\ Cardinality({ i \in 1..Len(evs) : IsErrorDiv(evs[i]) }) <= 1
    /\ \A i \in 1..Len(evs) :
           IsErrorDiv(evs[i]) =>
               Find(DictGet(evs[i].attrs, "class", <<>>), MsgError) > 0

\* C22: while an ErrorFilter is fed markup with one msg-error div, text is
\* being captured (level is set) exactly when that div is an open element:
\* from its start tag, through end tags that match no open element, until
\* its own end tag or the end tag of an enclosing element closes it.
C22_CaptureWhileErrorDivOpen ==
    ( /\ parser = "error"
      /\ pstate = "feeding"
      /\ AllAttrsValued(fed)
      /\ OneErrorDiv(fed) )
    => ( level # 0 <=>
           \E k \in 1..Len(OpenElements(<<>>, fed)) :
               OpenElements(<<>>, fed)[k].err )

-----------------------------------------------------------------------------
(* Claims about calculate-size (checked under Spec) *)

\* C23: a calcsize task whose calculate-size request was answered ends in
\* Failure only when the first statusMessages entry has status error, and in
\* Success for every other response, one without statusMessages or with an
\* empty list included.
C23_CalcsizeSucceedsWithoutMessages ==
    ( /\ Task(cmd).fn = "calcsize"
      /\ pc \in {"done", "failed"}
      /\ sent[Len(sent)].kind = "calculate-size" )
    => LET msgs == StatusMessages(info[Len(info)])
       IN  IF msgs # <<>> /\ msgs[1].status = "error"
           THEN pc = "failed" /\ result = Failure(msgs[1].content)
           ELSE pc = "done" /\ result = Success

=============================================================================
